---------------------------- MODULE Spec2Model ----------------------------
(***************************************************************************)
(* Model of the Bitcoin Script interpreter of                              *)
(* src/script_interpreter/src/main.rs: the opcode registry, the codec      *)
(* (bytes_to_asm / asm_to_bytes), the classifier (detect_type), the stack  *)
(* machine (Script::run), the validity rule (Script::validate) and the     *)
(* flow of main.                                                           *)
(*                                                                         *)
(* A token (a Rust String) is a sequence of one-character strings, a byte  *)
(* is an integer in 0..255, a byte vector is a sequence of bytes and the   *)
(* stack is a sequence of byte vectors whose last element is the top.      *)
(***************************************************************************)
EXTENDS Integers, Sequences, FiniteSets, TLC

(***************************************************************************)
(* Bounds of the model.                                                    *)
(***************************************************************************)
\* longest token sequence handed to detect_type in SpecDetect
MaxAsmLen == 5
\* longest token sequence handed to Script::run in SpecRun (general part)
MaxRunLen == 3
\* longest token sequence handed to asm_to_bytes in SpecCodec (general part)
MaxCodecLen == 2

(***************************************************************************)
(* Characters and the hex crate (hex::encode, hex::decode).                *)
(***************************************************************************)
HexLower == <<"0","1","2","3","4","5","6","7","8","9","a","b","c","d","e","f">>
HexUpper == <<"0","1","2","3","4","5","6","7","8","9","A","B","C","D","E","F">>
DecDigits == <<"0","1","2","3","4","5","6","7","8","9">>

\* value of a hex digit (either case), -1 for any other character
HexVal(c) ==
    IF \E i \in 1..16 : HexLower[i] = c
    THEN (CHOOSE i \in 1..16 : HexLower[i] = c) - 1
    ELSE IF \E i \in 1..16 : HexUpper[i] = c
         THEN (CHOOSE i \in 1..16 : HexUpper[i] = c) - 1
         ELSE -1

\* value of a decimal digit, -1 for any other character
DecVal(c) ==
    IF \E i \in 1..10 : DecDigits[i] = c
    THEN (CHOOSE i \in 1..10 : DecDigits[i] = c) - 1
    ELSE -1

\* format!("{:02x}", op): two lowercase hex digits of one byte
ByteHex(b) == << HexLower[(b \div 16) + 1], HexLower[(b % 16) + 1] >>

\* hex::encode: lowercase hex text of a byte vector
hex_encode(data) ==
    [i \in 1..(2 * Len(data)) |->
        IF i % 2 = 1 THEN HexLower[(data[(i + 1) \div 2] \div 16) + 1]
        ELSE HexLower[(data[i \div 2] % 16) + 1]]

\* the bytes of an even-length text of hex digits
HexBytes(s) ==
    [i \in 1..(Len(s) \div 2) |-> HexVal(s[2 * i - 1]) * 16 + HexVal(s[2 * i])]

\* hex::decode: fails on odd length and on any character that is no hex digit
hex_decode(s) ==
    IF Len(s) % 2 = 1 \/ \E i \in 1..Len(s) : HexVal(s[i]) = -1
    THEN [ok |-> FALSE, val |-> << >>]
    ELSE [ok |-> TRUE, val |-> HexBytes(s)]

\* str::to_ascii_lowercase on the characters the model uses
LowerChar(c) ==
    IF \E i \in 11..16 : HexUpper[i] = c
    THEN HexLower[CHOOSE i \in 11..16 : HexUpper[i] = c]
    ELSE c

to_ascii_lowercase(s) == [i \in 1..Len(s) |-> LowerChar(s[i])]


(***************************************************************************)
(* Opcode registry (init_opcodes).                                         *)
(***************************************************************************)
OpPrefix == <<"O","P","_">>

RECURSIVE DecText(_)
\* decimal text of a natural number
DecText(n) ==
    IF n < 10 THEN << DecDigits[n + 1] >>
    ELSE DecText(n \div 10) \o << DecDigits[(n % 10) + 1] >>

\* the mnemonic "OP_<n>"
OP_N(n) == OpPrefix \o DecText(n)

OP_0 == OP_N(0)
OP_1 == OP_N(1)
OP_2 == OP_N(2)
OP_3 == OP_N(3)
OP_16 == OP_N(16)
OP_DUP == OpPrefix \o <<"D","U","P">>
OP_EQUAL == OpPrefix \o <<"E","Q","U","A","L">>
OP_EQUALVERIFY == OpPrefix \o <<"E","Q","U","A","L","V","E","R","I","F","Y">>
OP_CHECKSIG == OpPrefix \o <<"C","H","E","C","K","S","I","G">>
OP_CHECKMULTISIG == OpPrefix \o <<"C","H","E","C","K","M","U","L","T","I","S","I","G">>
OP_HASH160 == OpPrefix \o <<"H","A","S","H","1","6","0">>
OP_RETURN == OpPrefix \o <<"R","E","T","U","R","N">>
OP_FALSE == OpPrefix \o <<"F","A","L","S","E">>
OP_TRUE == OpPrefix \o <<"T","R","U","E">>

\* opcode bytes, as written in init_opcodes and in the match of Script::run
CODE_OP_0 == 0
CODE_NUM_BASE == 80
CODE_DUP == 118
CODE_EQUAL == 135
CODE_EQUALVERIFY == 136
CODE_CHECKSIG == 172
CODE_CHECKMULTISIG == 174
CODE_HASH160 == 169
CODE_RETURN == 106

\* OPCODE_MAP: byte -> mnemonic
OPCODE_MAP ==
    [b \in {CODE_OP_0} \cup {CODE_NUM_BASE + i : i \in 1..16}
           \cup {CODE_DUP, CODE_EQUAL, CODE_EQUALVERIFY, CODE_CHECKSIG,
                 CODE_CHECKMULTISIG, CODE_HASH160, CODE_RETURN} |->
        IF b = CODE_OP_0 THEN OP_0
        ELSE IF b \in {CODE_NUM_BASE + i : i \in 1..16} THEN OP_N(b - CODE_NUM_BASE)
        ELSE IF b = CODE_DUP THEN OP_DUP
        ELSE IF b = CODE_EQUAL THEN OP_EQUAL
        ELSE IF b = CODE_EQUALVERIFY THEN OP_EQUALVERIFY
        ELSE IF b = CODE_CHECKSIG THEN OP_CHECKSIG
        ELSE IF b = CODE_CHECKMULTISIG THEN OP_CHECKMULTISIG
        ELSE IF b = CODE_HASH160 THEN OP_HASH160
        ELSE OP_RETURN]

\* REVERSE_OPCODE_MAP: mnemonic -> byte, with the two aliases
REVERSE_OPCODE_MAP ==
    [name \in {OPCODE_MAP[b] : b \in DOMAIN OPCODE_MAP} \cup {OP_FALSE, OP_TRUE} |->
        IF name = OP_FALSE THEN CODE_OP_0
        ELSE IF name = OP_TRUE THEN CODE_NUM_BASE + 1
        ELSE CHOOSE b \in DOMAIN OPCODE_MAP : OPCODE_MAP[b] = name]

\* REVERSE_OPCODE_MAP.get().and_then(|m| m.get(name)): the byte, or -1 for None
RevLookup(name) ==
    IF name \in DOMAIN REVERSE_OPCODE_MAP THEN REVERSE_OPCODE_MAP[name] ELSE -1

\* OPCODE_MAP.get().and_then(|m| m.get(&op)) is Some
FwdKnown(op) == op \in DOMAIN OPCODE_MAP

(***************************************************************************)
(* hash160 (SHA-256 then RIPEMD-160).  The two digests come from the       *)
(* sha2 and ripemd crates; they are modelled by a deterministic mixing     *)
(* function with the digest length of RIPEMD-160.                          *)
(***************************************************************************)
HashLen == 20

RECURSIVE Mix(_, _)
Mix(data, h) ==
    IF data = << >> THEN h
    ELSE Mix(Tail(data), (h * 31 + Head(data) + 1) % 256)

hash160(data) ==
    LET h == Mix(data, 7 + Len(data))
    IN  [i \in 1..HashLen |-> (h + 17 * i) % 256]

(***************************************************************************)
(* Script codec.                                                           *)
(***************************************************************************)
PUSH_MAX == 75
PUSHDATA1 == 76
DATA_MAX == 255
U8_MAX == 255
NUM_MAX == 16

RECURSIVE DecValue(_, _)
\* value of a text of decimal digits, accumulated left to right
DecValue(s, acc) ==
    IF s = << >> THEN acc
    ELSE DecValue(Tail(s), acc * 10 + DecVal(Head(s)))

\* str::parse::<u8>: an optional '+', then at least one decimal digit, value
\* at most 255; -1 models Err
ParseU8(s) ==
    LET digits == IF s # << >> /\ Head(s) = "+" THEN Tail(s) ELSE s
    IN  IF digits = << >> \/ \E i \in 1..Len(digits) : DecVal(digits[i]) = -1
        THEN -1
        ELSE IF DecValue(digits, 0) > U8_MAX THEN -1 ELSE DecValue(digits, 0)

\* part.strip_prefix("OP_").unwrap_or("")
StripOpPrefix(part) ==
    IF Len(part) >= 3 /\ SubSeq(part, 1, 3) = OpPrefix
    THEN SubSeq(part, 4, Len(part))
    ELSE << >>

\* the bytes one token contributes in asm_to_bytes, or the error it bails with
EncodeToken(part) ==
    IF RevLookup(part) # -1
    THEN [ok |-> TRUE, bytes |-> << RevLookup(part) >>, err |-> "none"]
    ELSE IF ParseU8(StripOpPrefix(part)) # -1
    THEN IF ParseU8(StripOpPrefix(part)) <= NUM_MAX
         THEN [ok |-> TRUE, bytes |-> << CODE_NUM_BASE + ParseU8(StripOpPrefix(part)) >>,
               err |-> "none"]
         ELSE [ok |-> FALSE, bytes |-> << >>, err |-> "Invalid OP_n"]
    ELSE LET d == hex_decode(part)
         IN  IF ~d.ok THEN [ok |-> FALSE, bytes |-> << >>, err |-> "FromHexError"]
             ELSE IF Len(d.val) < PUSHDATA1
                  THEN [ok |-> TRUE, bytes |-> << Len(d.val) >> \o d.val, err |-> "none"]
             ELSE IF Len(d.val) <= DATA_MAX
                  THEN [ok |-> TRUE, bytes |-> << PUSHDATA1, Len(d.val) >> \o d.val,
                        err |-> "none"]
             ELSE [ok |-> FALSE, bytes |-> << >>, err |-> "Data too large"]

RECURSIVE asm_to_bytes(_)
\* Script::asm_to_bytes: the first failing token aborts the whole encoding
asm_to_bytes(asm) ==
    IF asm = << >> THEN [ok |-> TRUE, bytes |-> << >>, err |-> "none"]
    ELSE LET e == EncodeToken(Head(asm))
         IN  IF ~e.ok THEN e
             ELSE LET r == asm_to_bytes(Tail(asm))
                  IN  IF ~r.ok THEN r
                      ELSE [ok |-> TRUE, bytes |-> e.bytes \o r.bytes, err |-> "none"]

RECURSIVE MutDecodeFrom(_, _, _)
\* a decoder that renders what is left after a truncated prefix as a token
MutDecodeFrom(bytes, i, asm) ==
    IF ~(i < Len(bytes)) THEN asm
    ELSE LET op == bytes[i + 1]
             j  == i + 1
         IN  IF op >= 1 /\ op <= PUSH_MAX
             THEN IF j + op > Len(bytes)
                  THEN Append(asm, hex_encode(SubSeq(bytes, j + 1, Len(bytes))))
                  ELSE MutDecodeFrom(bytes, j + op,
                                     Append(asm, hex_encode(SubSeq(bytes, j + 1, j + op))))
             ELSE IF FwdKnown(op)
                  THEN MutDecodeFrom(bytes, j, Append(asm, OPCODE_MAP[op]))
                  ELSE MutDecodeFrom(bytes, j, Append(asm, ByteHex(op)))

RECURSIVE DecodeFrom(_, _, _)
\* the while loop of bytes_to_asm from index i (0-based, as in the code)
DecodeFrom(bytes, i, asm) ==
    IF ~(i < Len(bytes)) THEN asm
    ELSE LET op == bytes[i + 1]
             j  == i + 1
         IN  IF op >= 1 /\ op <= PUSH_MAX
             THEN IF j + op > Len(bytes) THEN asm
                  ELSE DecodeFrom(bytes, j + op,
                                  Append(asm, hex_encode(SubSeq(bytes, j + 1, j + op))))
             ELSE IF FwdKnown(op)
                  THEN DecodeFrom(bytes, j, Append(asm, OPCODE_MAP[op]))
                  ELSE DecodeFrom(bytes, j, Append(asm, ByteHex(op)))

\* Script::bytes_to_asm
bytes_to_asm(bytes) == DecodeFrom(bytes, 0, << >>)

(***************************************************************************)
(* Script classifier.                                                      *)
(***************************************************************************)
\* Script::detect_type.  In the slice patterns [_, op_ch], [op_dup, op_has, _,
\* op_eq, op_ch] and [op_has, _, op_equ] the identifiers are fresh bindings
\* that shadow the locals of the same name, so each pattern matches every
\* slice of its length; [op_ren, ..] likewise matches every non-empty slice.
detect_type(asm) ==
    IF Len(asm) = 2 THEN "P2PK"
    ELSE IF Len(asm) = 5 THEN "P2PKH"
    ELSE IF Len(asm) = 3 THEN "P2SH"
    ELSE IF Len(asm) > 0 /\ asm[Len(asm)] = OP_CHECKMULTISIG THEN "P2MS"
    ELSE IF Len(asm) >= 1 THEN "Return"
    ELSE "Unknown"

(***************************************************************************)
(* Script construction (Script::new, from_hex, from_asm).  An input line   *)
(* is modelled by its whitespace-separated words, joined by single spaces. *)
(***************************************************************************)
NoScript == [hex |-> << >>, asm |-> << >>, script_type |-> "Unknown"]

\* Script::from_hex
from_hex(hex_str) ==
    LET d == hex_decode(hex_str)
    IN  IF ~d.ok THEN [ok |-> FALSE, script |-> NoScript, err |-> "FromHexError"]
        ELSE [ok |-> TRUE,
              script |-> [hex |-> to_ascii_lowercase(hex_str),
                          asm |-> bytes_to_asm(d.val),
                          script_type |-> detect_type(bytes_to_asm(d.val))],
              err |-> "none"]

\* Script::from_asm on the words of the line
from_asm(words) ==
    LET e == asm_to_bytes(words)
    IN  IF ~e.ok THEN [ok |-> FALSE, script |-> NoScript, err |-> e.err]
        ELSE [ok |-> TRUE,
              script |-> [hex |-> hex_encode(e.bytes),
                          asm |-> words,
                          script_type |-> detect_type(words)],
              err |-> "none"]

\* str::contains("OP_") on one word
ContainsOpPrefix(w) ==
    \E i \in 1..Len(w) : i + 2 <= Len(w) /\ SubSeq(w, i, i + 2) = OpPrefix

\* Script::new: a line with a space (two words or more) or with "OP_" in it
\* is mnemonic text, any other line is hex
Script_new(words) ==
    IF Len(words) >= 2 \/ \E i \in 1..Len(words) : ContainsOpPrefix(words[i])
    THEN from_asm(words)
    ELSE from_hex(IF words = << >> THEN << >> ELSE words[1])

(***************************************************************************)
(* Stack machine: the effect of one token (the body of the while loop of   *)
(* Script::run up to the debug hook).                                      *)
(***************************************************************************)
TRUE_ELEM == << 1 >>
FALSE_ELEM == << >>

\* Vec::pop whose result is dropped: nothing happens on an empty stack
PopBlind(stk) == IF stk = << >> THEN stk ELSE SubSeq(stk, 1, Len(stk) - 1)

RECURSIVE PopTimes(_, _)
\* for _ in 0..n { stack.pop(); }
PopTimes(stk, n) == IF n <= 0 \/ stk = << >> THEN stk ELSE PopTimes(PopBlind(stk), n - 1)

Res(kind, msg, stk) == [kind |-> kind, msg |-> msg, stack |-> stk]

\* let n = stack.pop().unwrap()[0] as usize - 0x50; for _ in 0..n { stack.pop(); }
\* checks: the build traps arithmetic overflow (debug profile); without it the
\* subtraction wraps to a count above any stack depth and the loop empties
\* the stack
PopCounted(stk, checks) ==
    IF stk = << >> THEN Res("Panic", "unwrap on None", stk)
    ELSE LET top  == stk[Len(stk)]
             rest == PopBlind(stk)
         IN  IF top = << >> THEN Res("Panic", "index out of bounds", rest)
             ELSE IF top[1] < CODE_NUM_BASE
                  THEN IF checks THEN Res("Panic", "subtract with overflow", rest)
                       ELSE Res("Ok", "none", PopTimes(rest, Len(rest)))
                  ELSE Res("Ok", "none", PopTimes(rest, top[1] - CODE_NUM_BASE))

\* OP_DUP with stack.last().unwrap() in place of ok_or_else
MutExecDupUnwrap(stk) ==
    IF stk = << >> THEN Res("Panic", "unwrap on None", stk)
    ELSE Res("Ok", "none", Append(stk, stk[Len(stk)]))

\* 0x76 OP_DUP
ExecDup(stk) ==
    IF stk = << >> THEN Res("Err", "OP_DUP on empty stack", stk)
    ELSE Res("Ok", "none", Append(stk, stk[Len(stk)]))

\* 0xa9 OP_HASH160
ExecHash160(stk) ==
    IF stk = << >> THEN Res("Err", "OP_HASH160 on empty stack", stk)
    ELSE Res("Ok", "none", Append(PopBlind(stk), hash160(stk[Len(stk)])))

\* 0x87 OP_EQUAL
ExecEqual(stk) ==
    IF stk = << >> THEN Res("Panic", "unwrap on None", stk)
    ELSE IF Len(stk) = 1 THEN Res("Panic", "unwrap on None", PopBlind(stk))
    ELSE LET b == stk[Len(stk)]
             a == stk[Len(stk) - 1]
         IN  Res("Ok", "none",
                 Append(SubSeq(stk, 1, Len(stk) - 2),
                        IF a = b THEN TRUE_ELEM ELSE FALSE_ELEM))

\* OP_EQUALVERIFY written like OP_EQUAL: the result is pushed, nothing fails
MutExecEqualVerify(stk) ==
    IF Len(stk) < 2 THEN Res("Panic", "unwrap on None", << >>)
    ELSE Res("Ok", "none",
             Append(SubSeq(stk, 1, Len(stk) - 2),
                    IF stk[Len(stk)] = stk[Len(stk) - 1] THEN TRUE_ELEM ELSE FALSE_ELEM))

\* 0x88 OP_EQUALVERIFY
ExecEqualVerify(stk) ==
    IF stk = << >> THEN Res("Panic", "unwrap on None", stk)
    ELSE IF Len(stk) = 1 THEN Res("Panic", "unwrap on None", PopBlind(stk))
    ELSE LET b == stk[Len(stk)]
             a == stk[Len(stk) - 1]
         IN  IF a # b
             THEN Res("Err", "OP_EQUALVERIFY failed", SubSeq(stk, 1, Len(stk) - 2))
             ELSE Res("Ok", "none", SubSeq(stk, 1, Len(stk) - 2))

\* OP_CHECKSIG that reports an underflow below two elements
MutExecCheckSigChecked(stk) ==
    IF Len(stk) < 2 THEN Res("Err", "OP_CHECKSIG on short stack", stk)
    ELSE Res("Ok", "none", Append(SubSeq(stk, 1, Len(stk) - 2), TRUE_ELEM))

\* OP_CHECKSIG with one pop only
MutExecCheckSig(stk) == Res("Ok", "none", Append(PopBlind(stk), TRUE_ELEM))

\* 0xac OP_CHECKSIG
ExecCheckSig(stk) == Res("Ok", "none", Append(PopBlind(PopBlind(stk)), TRUE_ELEM))

\* OP_CHECKMULTISIG without the additional pop
MutExecCheckMultiSigNoExtra(stk, checks) ==
    LET r1 == PopCounted(stk, checks)
    IN  IF r1.kind # "Ok" THEN r1
        ELSE LET r2 == PopCounted(r1.stack, checks)
             IN  IF r2.kind # "Ok" THEN r2
                 ELSE Res("Ok", "none", Append(r2.stack, TRUE_ELEM))

\* 0xae OP_CHECKMULTISIG
ExecCheckMultiSig(stk, checks) ==
    LET r1 == PopCounted(stk, checks)
    IN  IF r1.kind # "Ok" THEN r1
        ELSE LET r2 == PopCounted(r1.stack, checks)
             IN  IF r2.kind # "Ok" THEN r2
                 ELSE Res("Ok", "none", Append(PopBlind(r2.stack), TRUE_ELEM))

\* if !executed { let data = hex_decode(&op)?; stack.push(data); }
ExecPush(op, stk) ==
    LET d == hex_decode(op)
    IN  IF ~d.ok THEN Res("Err", "FromHexError", stk)
        ELSE Res("Ok", "none", Append(stk, d.val))

\* the dispatch without the OP_RETURN arm
MutExecTokenNoReturn(op, stk, checks) ==
    LET code == RevLookup(op)
    IN  IF code = CODE_DUP THEN ExecDup(stk)
        ELSE IF code = CODE_HASH160 THEN ExecHash160(stk)
        ELSE IF code = CODE_EQUAL THEN ExecEqual(stk)
        ELSE IF code = CODE_EQUALVERIFY THEN ExecEqualVerify(stk)
        ELSE IF code = CODE_CHECKSIG THEN ExecCheckSig(stk)
        ELSE IF code = CODE_CHECKMULTISIG THEN ExecCheckMultiSig(stk, checks)
        ELSE ExecPush(op, stk)

\* the token op applied to the stack stk
ExecToken(op, stk, checks) ==
    LET code == RevLookup(op)
    IN  IF code = CODE_DUP THEN ExecDup(stk)
        ELSE IF code = CODE_HASH160 THEN ExecHash160(stk)
        ELSE IF code = CODE_EQUAL THEN ExecEqual(stk)
        ELSE IF code = CODE_EQUALVERIFY THEN ExecEqualVerify(stk)
        ELSE IF code = CODE_CHECKSIG THEN ExecCheckSig(stk)
        ELSE IF code = CODE_CHECKMULTISIG THEN ExecCheckMultiSig(stk, checks)
        ELSE IF code = CODE_RETURN THEN Res("Err", "OP_RETURN makes script invalid", stk)
        ELSE ExecPush(op, stk)

\* validate that only asks for a non-empty stack
MutValidate(stk) == stk # << >>

\* Script::validate
validate(stk) == stk # << >> /\ stk[Len(stk)] # << >>

RECURSIVE Flatten(_)
\* scripts.iter().flat_map(|s| s.asm.clone()).collect()
Flatten(asms) == IF asms = << >> THEN << >> ELSE Head(asms) \o Flatten(Tail(asms))

(***************************************************************************)
(* Tokens and input sets of the bounded model.                             *)
(***************************************************************************)
SIG1 == <<"3","0","4","5">>
SIG2 == <<"3","0","4","6">>
KEY1 == <<"0","2","a","b">>
KEY1_UPPER == <<"0","2","A","B">>
KEY2 == <<"0","3","c","d">>
KEY3 == <<"0","3","e","f">>
DATA_AA == <<"a","a">>
DATA_BB == <<"b","b">>
COUNT0 == <<"5","0">>
COUNT1 == <<"5","1">>
COUNT2 == <<"5","2">>
COUNT3 == <<"5","3">>
LOW_COUNT == <<"0","2">>
BAD_HEX == <<"z","z">>
ODD_HEX == <<"a","b","c">>

\* the hex text of hash160 of the bytes a push token stands for
HashToken(tok) == hex_encode(hash160(hex_decode(tok).val))

\* all sequences over S of length at most n
RECURSIVE SeqsUpTo(_, _)
SeqsUpTo(S, n) ==
    IF n = 0 THEN { << >> }
    ELSE LET shorter == SeqsUpTo(S, n - 1)
         IN  shorter \cup { Append(q, x) : q \in shorter, x \in S }

\* the mnemonics Script::run finds in the registry without an arm of its own
NumericOps == {OP_0, OP_FALSE, OP_TRUE} \cup { OP_N(n) : n \in 1..16 }

Sigs == {SIG1, SIG2}
Keys == {KEY1, KEY1_UPPER, KEY2}
Hashes == { HashToken(k) : k \in Keys \cup {KEY3} }

\* locking token sequences of the pay-to-public-key-hash template
P2PKHLocks == { <<OP_DUP, OP_HASH160, h, OP_EQUALVERIFY, OP_CHECKSIG>> : h \in Hashes }
\* locking token sequences {OP_RETURN, <data>}
ReturnLocks == { <<OP_RETURN, d>> : d \in {DATA_AA, KEY1, SIG1} }
\* multisig: count 2, three keys, count 3, OP_CHECKMULTISIG
MultiSigLock == <<COUNT2, KEY1, KEY2, KEY3, COUNT3, OP_CHECKMULTISIG>>

UnlockAlphabet ==
    {OP_DUP, OP_HASH160, OP_EQUAL, OP_EQUALVERIFY, OP_CHECKSIG, OP_CHECKMULTISIG,
     OP_RETURN, DATA_AA}

\* the lines main may read as the locking script
LockLines ==
    P2PKHLocks \cup ReturnLocks
    \cup { MultiSigLock, << >>, <<OP_RETURN>>, <<BAD_HEX, OP_DUP>>,
           <<KEY1, OP_CHECKSIG>>, <<OP_HASH160, HashToken(DATA_AA), OP_EQUAL>>,
           <<OP_N(17)>>, << <<"6","a","0","1","a","a">> >>,
           << <<"7","6","a","9","1","4">> \o HashToken(KEY1) \o <<"8","8","a","c">> >> }

\* longest general unlocking line of the main flow
MaxUnlockLen == 2

\* the lines main may read as the unlocking script
UnlockLines ==
    SeqsUpTo(UnlockAlphabet, MaxUnlockLen)
    \cup { <<s, k>> : s \in Sigs, k \in Keys }
    \cup { <<DATA_AA, SIG1, SIG2>>, <<SIG1, SIG2>>, <<SIG1, DATA_AA>>,
           <<BAD_HEX, SIG1>>, <<SIG1, <<"a","a","8","7">> >>,
           <<DATA_AA, OP_1>>, <<OP_TRUE, DATA_AA>>, <<COUNT2, OP_CHECKMULTISIG>>,
           << <<"0","1","a","a","5","2">> >>,
           << <<"0","2">> \o SIG1 \o <<"0","2">> \o KEY1 >> }

RunAlphabet ==
    {OP_DUP, OP_HASH160, OP_EQUAL, OP_EQUALVERIFY, OP_CHECKSIG, OP_CHECKMULTISIG,
     OP_RETURN, OP_1, DATA_AA, DATA_BB, COUNT2, BAD_HEX}

\* the script lists handed to Script::run in SpecRun
RunInputs ==
    { << q >> : q \in SeqsUpTo(RunAlphabet, MaxRunLen) }
    \cup { << <<s, k>>, l >> : s \in Sigs, k \in Keys, l \in P2PKHLocks }
    \cup { << u, MultiSigLock >> :
             u \in { <<DATA_AA, SIG1, SIG2>>, <<SIG1, SIG2>>, << >>, <<SIG1>> } }
    \cup { << <<DATA_AA>>, <<t>>, <<DATA_BB>> >> : t \in NumericOps }
    \cup { << <<a, b>>, <<OP_EQUALVERIFY, DATA_AA>> >> :
             a \in {DATA_AA, DATA_BB}, b \in {DATA_AA, DATA_BB, <<"A","A">>} }
    \cup { << <<LOW_COUNT, OP_CHECKMULTISIG>> >>, << <<DATA_AA, ODD_HEX>> >>,
           << <<DATA_AA, DATA_BB, OP_EQUAL>>, <<DATA_AA>> >>,
           << <<DATA_AA>>, <<DATA_AA, DATA_BB, OP_EQUAL>> >>,
           << <<DATA_AA>>, <<DATA_AA, DATA_AA, OP_EQUAL>> >>,
           << <<DATA_BB, DATA_AA, SIG1, SIG2>>, MultiSigLock >>,
           << <<DATA_AA, DATA_BB, COUNT0, COUNT0, OP_CHECKMULTISIG>> >>,
           << <<DATA_AA, SIG1, COUNT1>>,
              <<KEY1, KEY2, COUNT2, OP_CHECKMULTISIG, DATA_BB>> >>,
           << <<DATA_AA, OP_HASH160, OP_DUP, OP_EQUALVERIFY, OP_DUP>> >>,
           << <<DATA_AA, DATA_BB, SIG1, OP_CHECKSIG, OP_CHECKSIG>> >> }

(***************************************************************************)
(* State.                                                                  *)
(***************************************************************************)
VARIABLES
    locking_in,       \* the words of the first line main reads
    unlocking_in,     \* the words of the second line main reads
    locking,          \* main: let locking = Script::new(..)?
    unlocking,        \* main: let unlocking = Script::new(..)?
    scripts,          \* run: the asm of each script of the argument list
    debug,            \* run: the debug argument
    overflow_checks,  \* whether the build traps arithmetic overflow
    full_script,      \* run: the remaining instruction list
    stack,            \* run: the stack (last element on top)
    op,               \* run: the token consumed last
    pc,               \* position of the program
    outcome,          \* how the run (or main) ended
    verdict,          \* what main prints after validate
    d_asm,            \* SpecDetect: the argument of detect_type
    d_type,           \* SpecDetect: its result
    c_asm,            \* SpecCodec: the argument of asm_to_bytes
    c_enc,            \* SpecCodec: its result
    c_dec             \* SpecCodec: bytes_to_asm of the encoded bytes

vars == << locking_in, unlocking_in, locking, unlocking, scripts, debug,
           overflow_checks, full_script, stack, op, pc, outcome, verdict,
           d_asm, d_type, c_asm, c_enc, c_dec >>

mainVars == << locking_in, unlocking_in, locking, unlocking >>
runVars == << scripts, debug, full_script, stack, op >>
pureVars == << d_asm, d_type, c_asm, c_enc, c_dec >>

NoOutcome == [kind |-> "none", msg |-> "none"]
NoEnc == [ok |-> FALSE, bytes |-> << >>, err |-> "pending"]

IdlePure ==
    /\ d_asm = << >> /\ d_type = "pending"
    /\ c_asm = << >> /\ c_enc = NoEnc /\ c_dec = << >>

IdleRun ==
    /\ scripts = << >> /\ full_script = << >> /\ stack = << >> /\ op = << >>
    /\ outcome = NoOutcome /\ verdict = "none"

\* main before it reads its first line
Init ==
    /\ locking_in \in LockLines
    /\ unlocking_in \in UnlockLines
    /\ overflow_checks \in BOOLEAN
    /\ locking = NoScript /\ unlocking = NoScript
    /\ debug = TRUE
    /\ pc = "read_locking"
    /\ IdleRun /\ IdlePure

(***************************************************************************)
(* main.                                                                   *)
(***************************************************************************)
\* main: let locking = Script::new(&input)?;
ParseLocking ==
    /\ pc = "read_locking"
    /\ LET r == Script_new(locking_in)
       IN  IF r.ok
           THEN /\ locking' = r.script
                /\ pc' = "read_unlocking"
                /\ outcome' = outcome
           ELSE /\ locking' = locking
                /\ pc' = "exit"
                /\ outcome' = [kind |-> "Err", msg |-> r.err]
    /\ UNCHANGED << locking_in, unlocking_in, unlocking, runVars, overflow_checks,
                    verdict, pureVars >>

\* main: let unlocking = Script::new(&input)?;
ParseUnlocking ==
    /\ pc = "read_unlocking"
    /\ LET r == Script_new(unlocking_in)
       IN  IF r.ok
           THEN /\ unlocking' = r.script
                /\ pc' = "press_enter"
                /\ outcome' = outcome
           ELSE /\ unlocking' = unlocking
                /\ pc' = "exit"
                /\ outcome' = [kind |-> "Err", msg |-> r.err]
    /\ UNCHANGED << locking_in, unlocking_in, locking, runVars, overflow_checks,
                    verdict, pureVars >>

\* the script list main hands to Script::run, or the failure before the call
MainScripts(lock, unlock) ==
    IF lock.script_type = "P2SH"
    THEN IF unlock.asm = << >>
         THEN [kind |-> "Panic", msg |-> "unwrap on None", scripts |-> << >>]
         ELSE LET r == from_hex(unlock.asm[Len(unlock.asm)])
              IN  IF ~r.ok THEN [kind |-> "Err", msg |-> r.err, scripts |-> << >>]
                  ELSE [kind |-> "Ok", msg |-> "none",
                        scripts |-> << unlock.asm, r.script.asm >>]
    ELSE [kind |-> "Ok", msg |-> "none", scripts |-> << unlock.asm, lock.asm >>]

\* main: the choice of the scripts and the call Script::run(.., true)
StartRun ==
    /\ pc = "press_enter"
    /\ LET m == MainScripts(locking, unlocking)
       IN  IF m.kind = "Ok"
           THEN /\ scripts' = m.scripts
                /\ pc' = "run_entry"
                /\ outcome' = outcome
           ELSE /\ scripts' = scripts
                /\ pc' = IF m.kind = "Panic" THEN "aborted" ELSE "exit"
                /\ outcome' = [kind |-> m.kind, msg |-> m.msg]
    /\ debug' = TRUE
    /\ UNCHANGED << mainVars, full_script, stack, op, overflow_checks, verdict,
                    pureVars >>

(***************************************************************************)
(* Script::run.                                                            *)
(***************************************************************************)
\* let mut full_script = ..flat_map..; let mut stack = Vec::new();
RunEnter ==
    /\ pc = "run_entry"
    /\ full_script' = Flatten(scripts)
    /\ stack' = << >>
    /\ pc' = "loop"
    /\ UNCHANGED << mainVars, scripts, debug, op, overflow_checks, outcome, verdict,
                    pureVars >>

\* a turn of the loop without full_script.remove(0)
MutStepNoRemove ==
    /\ pc = "loop"
    /\ full_script # << >>
    /\ op' = Head(full_script)
    /\ full_script' = full_script
    /\ LET r == ExecToken(Head(full_script), stack, overflow_checks)
       IN  /\ stack' = r.stack
           /\ IF r.kind = "Ok"
              THEN /\ pc' = IF debug THEN "wait" ELSE "loop"
                   /\ outcome' = outcome
              ELSE /\ pc' = IF r.kind = "Panic" THEN "aborted" ELSE "returned"
                   /\ outcome' = [kind |-> r.kind, msg |-> r.msg]
    /\ UNCHANGED << mainVars, scripts, debug, overflow_checks, verdict, pureVars >>

\* one turn of the while loop: the first token is removed and executed
Step ==
    /\ pc = "loop"
    /\ full_script # << >>
    /\ op' = Head(full_script)
    /\ full_script' = Tail(full_script)
    /\ LET r == ExecToken(Head(full_script), stack, overflow_checks)
       IN  /\ stack' = r.stack
           /\ IF r.kind = "Ok"
              THEN /\ pc' = IF debug THEN "wait" ELSE "loop"
                   /\ outcome' = outcome
              ELSE /\ pc' = IF r.kind = "Panic" THEN "aborted" ELSE "returned"
                   /\ outcome' = [kind |-> r.kind, msg |-> r.msg]
    /\ UNCHANGED << mainVars, scripts, debug, overflow_checks, verdict, pureVars >>

\* the registry byte of the next token, -1 when it has none, -2 at the end
NextCode == IF full_script = << >> THEN -2 ELSE RevLookup(Head(full_script))

\* the turn of the loop, by the arm of the match that takes the token
StepDup ==
    /\ NextCode = CODE_DUP
    /\ Step
StepHash160 ==
    /\ NextCode = CODE_HASH160
    /\ Step
StepEqual ==
    /\ NextCode = CODE_EQUAL
    /\ Step
StepEqualVerify ==
    /\ NextCode = CODE_EQUALVERIFY
    /\ Step
StepCheckSig ==
    /\ NextCode = CODE_CHECKSIG
    /\ Step
StepCheckMultiSig ==
    /\ NextCode = CODE_CHECKMULTISIG
    /\ Step
StepReturn ==
    /\ NextCode = CODE_RETURN
    /\ Step
\* a registry mnemonic without an arm of its own (the numeric constants)
StepOther ==
    /\ NextCode \in DOMAIN OPCODE_MAP \ {CODE_DUP, CODE_HASH160, CODE_EQUAL,
                                        CODE_EQUALVERIFY, CODE_CHECKSIG,
                                        CODE_CHECKMULTISIG, CODE_RETURN}
    /\ Step
\* a token that is no registry mnemonic
StepData ==
    /\ NextCode = -1
    /\ Step

\* a debug hook that takes the top element off the stack it prints
MutResumeDropsTop ==
    /\ pc = "wait"
    /\ pc' = "loop"
    /\ stack' = PopBlind(stack)
    /\ UNCHANGED << mainVars, scripts, debug, full_script, op, overflow_checks,
                    outcome, verdict, pureVars >>

\* the debug hook: debug_print, then read_line returns
Resume ==
    /\ pc = "wait"
    /\ pc' = "loop"
    /\ UNCHANGED << mainVars, runVars, overflow_checks, outcome, verdict, pureVars >>

\* the loop ends on the empty instruction list: Ok(stack)
RunReturn ==
    /\ pc = "loop"
    /\ full_script = << >>
    /\ outcome' = [kind |-> "Ok", msg |-> "none"]
    /\ pc' = "returned"
    /\ UNCHANGED << mainVars, runVars, overflow_checks, verdict, pureVars >>

RunNext ==
    \/ RunEnter
    \/ StepDup
    \/ StepHash160
    \/ StepEqual
    \/ StepEqualVerify
    \/ StepCheckSig
    \/ StepCheckMultiSig
    \/ StepReturn
    \/ StepOther
    \/ StepData
    \/ Resume
    \/ RunReturn

\* the caller applies Script::validate to the returned stack
Validate ==
    /\ pc = "returned"
    /\ outcome.kind = "Ok"
    /\ verdict' = IF validate(stack) THEN "VALID" ELSE "INVALID"
    /\ pc' = "exit"
    /\ UNCHANGED << mainVars, runVars, overflow_checks, outcome, pureVars >>

\* main: the ? after Script::run returns the error
Propagate ==
    /\ pc = "returned"
    /\ outcome.kind = "Err"
    /\ pc' = "exit"
    /\ UNCHANGED << mainVars, runVars, overflow_checks, outcome, verdict, pureVars >>

Next ==
    \/ ParseLocking
    \/ ParseUnlocking
    \/ StartRun
    \/ RunNext
    \/ Validate
    \/ Propagate

Spec == Init /\ [][Next]_vars

(***************************************************************************)
(* Script::run called on its own: any script list, either debug value.     *)
(***************************************************************************)
InitRun ==
    /\ scripts \in RunInputs
    /\ debug \in BOOLEAN
    /\ overflow_checks \in BOOLEAN
    /\ locking_in = << >> /\ unlocking_in = << >>
    /\ locking = NoScript /\ unlocking = NoScript
    /\ full_script = << >> /\ stack = << >> /\ op = << >>
    /\ outcome = NoOutcome /\ verdict = "none"
    /\ pc = "run_entry"
    /\ IdlePure

NextRun == RunNext \/ Validate

SpecRun == InitRun /\ [][NextRun]_vars

\* the same, where the program keeps running and read_line returns each time
SpecRunFair == SpecRun /\ WF_vars(NextRun)

(***************************************************************************)
(* Script::detect_type applied to any token sequence.                      *)
(***************************************************************************)
DetectAlphabet ==
    {OP_DUP, OP_HASH160, OP_EQUALVERIFY, OP_EQUAL, OP_CHECKSIG, OP_CHECKMULTISIG,
     OP_RETURN, DATA_AA}

InitDetect ==
    /\ d_asm \in SeqsUpTo(DetectAlphabet, MaxAsmLen)
    /\ d_type = "pending"
    /\ c_asm = << >> /\ c_enc = NoEnc /\ c_dec = << >>
    /\ locking_in = << >> /\ unlocking_in = << >>
    /\ locking = NoScript /\ unlocking = NoScript
    /\ debug = FALSE /\ overflow_checks = FALSE
    /\ IdleRun
    /\ pc = "detect"

Detect ==
    /\ pc = "detect"
    /\ d_type' = detect_type(d_asm)
    /\ pc' = "done"
    /\ UNCHANGED << mainVars, runVars, overflow_checks, outcome, verdict,
                    d_asm, c_asm, c_enc, c_dec >>

NextDetect == Detect

SpecDetect == InitDetect /\ [][NextDetect]_vars

(***************************************************************************)
(* The codec: asm_to_bytes applied to any token sequence, then             *)
(* bytes_to_asm applied to the bytes it returns.                           *)
(***************************************************************************)
\* n copies of the text s
Repeat(s, n) == [i \in 1..(n * Len(s)) |-> s[((i - 1) % Len(s)) + 1]]

\* a push-data token of n bytes, each 0x4b
PushOfLen(n) == Repeat(<<"4","b">>, n)

CodecAlphabet ==
    {OP_DUP, OP_CHECKSIG, OP_RETURN, OP_0, OP_1, OP_16, OP_FALSE, OP_TRUE,
     OP_N(17), OP_N(255), OP_N(256), OP_N(300),
     OpPrefix \o <<"0","0">>, OpPrefix \o <<"+","5">>, OpPrefix \o <<"x">>,
     DATA_AA, <<"A","A">>, KEY1, BAD_HEX, ODD_HEX,
     PushOfLen(PUSH_MAX), PushOfLen(PUSHDATA1), PushOfLen(DATA_MAX),
     PushOfLen(DATA_MAX + 1)}

InitCodec ==
    /\ c_asm \in SeqsUpTo(CodecAlphabet, MaxCodecLen)
    /\ c_enc = NoEnc /\ c_dec = << >>
    /\ d_asm = << >> /\ d_type = "pending"
    /\ locking_in = << >> /\ unlocking_in = << >>
    /\ locking = NoScript /\ unlocking = NoScript
    /\ debug = FALSE /\ overflow_checks = FALSE
    /\ IdleRun
    /\ pc = "encode"

Encode ==
    /\ pc = "encode"
    /\ c_enc' = asm_to_bytes(c_asm)
    /\ pc' = IF asm_to_bytes(c_asm).ok THEN "decode" ELSE "done"
    /\ UNCHANGED << mainVars, runVars, overflow_checks, outcome, verdict,
                    d_asm, d_type, c_asm, c_dec >>

Decode ==
    /\ pc = "decode"
    /\ c_dec' = bytes_to_asm(c_enc.bytes)
    /\ pc' = "done"
    /\ UNCHANGED << mainVars, runVars, overflow_checks, outcome, verdict,
                    d_asm, d_type, c_asm, c_enc >>

NextCodec == Encode \/ Decode

SpecCodec == InitCodec /\ [][NextCodec]_vars

(***************************************************************************)
(* Script::bytes_to_asm applied to any byte sequence.                      *)
(***************************************************************************)
\* longest byte sequence handed to bytes_to_asm
MaxBytesLen == 3

ByteAlphabet == {0, 1, 2, PUSH_MAX, PUSHDATA1, CODE_DUP, 170}

InitDecode ==
    /\ c_enc \in {[ok |-> TRUE, bytes |-> b, err |-> "none"] :
                    b \in SeqsUpTo(ByteAlphabet, MaxBytesLen)}
    /\ c_asm = << >> /\ c_dec = << >>
    /\ d_asm = << >> /\ d_type = "pending"
    /\ locking_in = << >> /\ unlocking_in = << >>
    /\ locking = NoScript /\ unlocking = NoScript
    /\ debug = FALSE /\ overflow_checks = FALSE
    /\ IdleRun
    /\ pc = "decode"

NextDecode == Decode

SpecDecode == InitDecode /\ [][NextDecode]_vars

(***************************************************************************)
(* Properties.                                                             *)
(***************************************************************************)
Ended == pc \in {"returned", "aborted", "exit"}

\* a token Script::run pushes: no registry mnemonic, valid hex
IsPush(tok) == RevLookup(tok) = -1 /\ hex_decode(tok).ok

\* the five locking tokens of pay-to-public-key-hash around the hash token h
IsP2PKHLock(l) ==
    /\ Len(l) = 5
    /\ l[1] = OP_DUP /\ l[2] = OP_HASH160 /\ IsPush(l[3])
    /\ l[4] = OP_EQUALVERIFY /\ l[5] = OP_CHECKSIG

\* main parsed the unlocking tokens {S, K} and the P2PKH locking tokens whose
\* hash is hash160(K)
P2PKHMatch ==
    /\ Len(unlocking.asm) = 2 /\ IsPush(unlocking.asm[1]) /\ IsPush(unlocking.asm[2])
    /\ IsP2PKHLock(locking.asm)
    /\ hex_decode(locking.asm[3]).val = hash160(hex_decode(unlocking.asm[2]).val)

\* C1: with unlocking tokens {S, K} and the P2PKH locking tokens whose hash
\* is hash160(K), the locking script is tagged P2PKH, the run raises nothing
\* and returns the stack [true], and validate accepts it.
C1_P2PKHValid ==
    P2PKHMatch =>
        /\ locking.script_type = "P2PKH"
        /\ outcome.kind \in {"none", "Ok"}
        /\ pc # "aborted"
        /\ pc \in {"returned", "exit"} =>
              outcome.kind = "Ok" /\ stack = << TRUE_ELEM >>
        /\ pc = "exit" => verdict = "VALID"

C1_Witness ==
    /\ P2PKHMatch
    /\ pc = "exit"
    /\ op = OP_CHECKSIG
    /\ stack = << TRUE_ELEM >>
    /\ verdict = "VALID"

\* C2: detect_type tags a sequence P2PK exactly when it has two tokens and
\* the second is OP_CHECKSIG, P2PKH exactly when it has five tokens with
\* OP_DUP, OP_HASH160, OP_EQUALVERIFY, OP_CHECKSIG at positions 1, 2, 4, 5,
\* and P2SH exactly when it has three tokens with OP_HASH160 first and
\* OP_EQUAL last.
C2_TemplatesByMnemonic ==
    pc = "done" =>
        /\ d_type = "P2PK" <=> (Len(d_asm) = 2 /\ d_asm[2] = OP_CHECKSIG)
        /\ d_type = "P2PKH" <=>
              (/\ Len(d_asm) = 5
               /\ d_asm[1] = OP_DUP /\ d_asm[2] = OP_HASH160
               /\ d_asm[4] = OP_EQUALVERIFY /\ d_asm[5] = OP_CHECKSIG)
        /\ d_type = "P2SH" <=>
              (Len(d_asm) = 3 /\ d_asm[1] = OP_HASH160 /\ d_asm[3] = OP_EQUAL)

\* the tokens the round trip is claimed for: registry mnemonics, OP_1..OP_16
\* and hex push data of at most 255 bytes
InRoundTripDomain(tok) ==
    \/ RevLookup(tok) # -1
    \/ \E n \in 1..NUM_MAX : tok = OP_N(n)
    \/ IsPush(tok) /\ Len(hex_decode(tok).val) <= DATA_MAX

\* the same opcode at an opcode position, the same bytes at a push position
EquivalentToken(a, b) ==
    IF RevLookup(a) # -1 THEN RevLookup(b) = RevLookup(a)
    ELSE /\ RevLookup(b) = -1
         /\ hex_decode(b).ok
         /\ hex_decode(b).val = hex_decode(a).val

\* C3: for a token sequence asm_to_bytes accepts, bytes_to_asm of the
\* encoded bytes has the same number of tokens, the same opcode at every
\* opcode position and the same bytes at every push-data position.
C3_RoundTrip ==
    (pc = "done" /\ c_enc.ok /\ \A i \in 1..Len(c_asm) : InRoundTripDomain(c_asm[i])) =>
        /\ Len(c_dec) = Len(c_asm)
        /\ \A i \in 1..Len(c_asm) : EquivalentToken(c_asm[i], c_dec[i])

ReturnMsg == "OP_RETURN makes script invalid"

\* main ran the scripts for locking tokens {OP_RETURN, <data>} and stopped
ReturnLockEnded ==
    /\ Len(locking.asm) = 2 /\ locking.asm[1] = OP_RETURN /\ IsPush(locking.asm[2])
    /\ scripts # << >>
    /\ Ended

\* C4 as stated: with locking tokens {OP_RETURN, <data>} the interpretation
\* ends in the failure raised by OP_RETURN, whatever the unlocking tokens are.
C4_AlwaysReturnFailure ==
    ReturnLockEnded => outcome = [kind |-> "Err", msg |-> ReturnMsg]

\* C4 amended: with locking tokens {OP_RETURN, <data>} the interpretation
\* never ends with a final stack or a verdict; it ends in the failure raised
\* by OP_RETURN unless an unlocking token failed first (the locking tokens
\* are then still in the instruction list), and it always does when every
\* unlocking token is push data.
C4_ReturnFailureUnlessUnlockingFails ==
    ReturnLockEnded =>
        /\ outcome.kind \in {"Err", "Panic"}
        /\ verdict = "none"
        /\ \/ outcome = [kind |-> "Err", msg |-> ReturnMsg]
           \/ Len(full_script) >= Len(locking.asm)
        /\ (\A i \in 1..Len(unlocking.asm) : IsPush(unlocking.asm[i])) =>
              /\ outcome = [kind |-> "Err", msg |-> ReturnMsg]
              /\ full_script = << locking.asm[2] >>

C4_Witness ==
    /\ ReturnLockEnded
    /\ unlocking.asm # << >>
    /\ \A i \in 1..Len(unlocking.asm) : IsPush(unlocking.asm[i])
    /\ op = OP_RETURN
    /\ outcome = [kind |-> "Err", msg |-> ReturnMsg]
    /\ pc = "exit"

\* C5: OP_CHECKMULTISIG on count 3, three keys, count 2 and two signatures
\* without the additional element fails with an underflow; with the
\* additional element it produces [true].
C5_MultiSigNeedsExtra ==
    Ended =>
        /\ scripts = << <<SIG1, SIG2>>, MultiSigLock >> =>
              outcome.kind \in {"Err", "Panic"}
        /\ scripts = << <<DATA_AA, SIG1, SIG2>>, MultiSigLock >> =>
              outcome.kind = "Ok" /\ stack = << TRUE_ELEM >>

\* C6: a sequence whose first token is OP_RETURN and whose last token is not
\* OP_CHECKMULTISIG is tagged Return, whatever its length.
C6_ReturnFirst ==
    (pc = "done" /\ d_asm # << >> /\ d_asm[1] = OP_RETURN
       /\ d_asm[Len(d_asm)] # OP_CHECKMULTISIG) => d_type = "Return"

\* C7: a sequence whose last token is OP_CHECKMULTISIG is tagged P2MS,
\* whatever its length and the tokens before.
C7_MultiSigLast ==
    (pc = "done" /\ d_asm # << >> /\ d_asm[Len(d_asm)] = OP_CHECKMULTISIG) =>
        d_type = "P2MS"

EqualVerifyMsg == "OP_EQUALVERIFY failed"

\* the turn of the loop that takes OP_EQUALVERIFY on two elements or more
EqualVerifyTurn ==
    LET n == Len(stack)
    IN  (pc = "loop" /\ NextCode = CODE_EQUALVERIFY /\ n >= 2) =>
            /\ stack' = SubSeq(stack, 1, n - 2)
            /\ full_script' = Tail(full_script)
            /\ IF stack[n] # stack[n - 1]
               THEN /\ outcome' = [kind |-> "Err", msg |-> EqualVerifyMsg]
                    /\ pc' = "returned"
               ELSE /\ outcome' = outcome
                    /\ pc' \in {"loop", "wait"}

\* nothing is executed once the run has ended
NoTurnAfterEnd ==
    Ended => /\ full_script' = full_script
             /\ stack' = stack
             /\ op' = op
             /\ outcome' = outcome

\* Script::run got {S, K} and P2PKH locking tokens whose hash is not hash160(K)
P2PKHMismatchRun ==
    /\ Len(scripts) = 2
    /\ Len(scripts[1]) = 2 /\ IsPush(scripts[1][1]) /\ IsPush(scripts[1][2])
    /\ IsP2PKHLock(scripts[2])
    /\ hex_decode(scripts[2][3]).val # hash160(hex_decode(scripts[1][2]).val)

P2PKHMismatchFails ==
    (P2PKHMismatchRun /\ Ended) =>
        /\ outcome = [kind |-> "Err", msg |-> EqualVerifyMsg]
        /\ op = OP_EQUALVERIFY
        /\ full_script = << OP_CHECKSIG >>
        /\ verdict = "none"

\* C8: OP_EQUALVERIFY on two elements or more pops the top two; if they
\* differ the run ends with "OP_EQUALVERIFY failed" and no later token is
\* executed, if they are equal nothing is pushed and the run goes on; the
\* P2PKH scenario with a hash other than hash160(K) fails at OP_EQUALVERIFY,
\* before OP_CHECKSIG.
C8_EqualVerify ==
    /\ [][EqualVerifyTurn]_vars
    /\ [][NoTurnAfterEnd]_vars
    /\ [](P2PKHMismatchFails /\ (P2PKHMismatchRun => pc # "exit"))

C8_Witness ==
    /\ P2PKHMismatchRun
    /\ pc = "returned"
    /\ op = OP_EQUALVERIFY
    /\ outcome = [kind |-> "Err", msg |-> EqualVerifyMsg]
    /\ full_script = << OP_CHECKSIG >>

\* C9: validate is true exactly when the stack is non-empty and its top
\* element is non-empty, and it leaves the stack as it is.
C9_Validate ==
    /\ [](pc = "exit" =>
            /\ verdict \in {"VALID", "INVALID"}
            /\ verdict = "VALID" <=>
                  (Len(stack) > 0 /\ Len(stack[Len(stack)]) > 0))
    /\ [][(pc = "returned" /\ pc' = "exit") => stack' = stack]_vars

\* validate refused a stack whose top is empty above a non-empty element
C9_Witness ==
    /\ pc = "exit"
    /\ Len(stack) = 2
    /\ stack[1] # << >> /\ stack[2] = << >>
    /\ verdict = "INVALID"

\* C10: a registry mnemonic without modelled semantics (OP_0, OP_1..OP_16,
\* OP_FALSE, OP_TRUE) is a no-op: the token is consumed, the stack is left
\* unchanged, no error is raised and the run goes on.
C10_NumericNoOp ==
    [][(pc = "loop" /\ full_script # << >> /\ Head(full_script) \in NumericOps) =>
          /\ full_script' = Tail(full_script)
          /\ stack' = stack
          /\ outcome' = outcome
          /\ pc' \in {"loop", "wait"}]_vars

\* C11: Script::run ends with a returned stack or a returned error; no
\* opcode executed on too few elements aborts the process.
C11_NoAbort == pc # "aborted" /\ outcome.kind # "Panic"

\* C12: when the locking script is tagged P2SH and the verdict is VALID,
\* hash160 of the redeem script bytes (the last unlocking token) equals the
\* hash at position 2 of the locking script.
C12_P2SHHashChecked ==
    (locking.script_type = "P2SH" /\ verdict = "VALID") =>
        /\ unlocking.asm # << >>
        /\ hex_decode(unlocking.asm[Len(unlocking.asm)]).ok
        /\ hash160(hex_decode(unlocking.asm[Len(unlocking.asm)]).val)
              = hex_decode(locking.asm[2]).val

\* the stack holds, from the top: a count element decoding to N, N elements,
\* a count element decoding to M, M elements and one additional element
MultiSigLayout(stk) ==
    LET n == Len(stk)
    IN  /\ n >= 1
        /\ stk[n] # << >> /\ stk[n][1] >= CODE_NUM_BASE
        /\ LET cntN == stk[n][1] - CODE_NUM_BASE
           IN  /\ n - 1 - cntN >= 1
               /\ stk[n - 1 - cntN] # << >>
               /\ stk[n - 1 - cntN][1] >= CODE_NUM_BASE
               /\ n - 2 - cntN - (stk[n - 1 - cntN][1] - CODE_NUM_BASE) >= 1

\* N + M + 3 for a stack of that layout
MultiSigRemoved(stk) ==
    LET n == Len(stk)
        cntN == stk[n][1] - CODE_NUM_BASE
        cntM == stk[n - 1 - cntN][1] - CODE_NUM_BASE
    IN  cntN + cntM + 3

\* C13: OP_CHECKMULTISIG on a count N, N elements, a count M, M elements and
\* one additional element above a remaining stack R removes exactly those
\* N + M + 3 elements, pushes [0x01] and leaves R as it is.
C13_MultiSigStackEffect ==
    [][(pc = "loop" /\ NextCode = CODE_CHECKMULTISIG /\ MultiSigLayout(stack)) =>
          /\ stack' = Append(SubSeq(stack, 1, Len(stack) - MultiSigRemoved(stack)),
                             TRUE_ELEM)
          /\ outcome' = outcome
          /\ pc' \in {"loop", "wait"}]_vars

\* OP_CHECKMULTISIG took 2 + 3 + 3 elements and left the element below them
C13_Witness ==
    /\ scripts = << <<DATA_BB, DATA_AA, SIG1, SIG2>>, MultiSigLock >>
    /\ op = OP_CHECKMULTISIG
    /\ stack = << hex_decode(DATA_BB).val, TRUE_ELEM >>
    /\ outcome.kind \in {"none", "Ok"}

\* C14: OP_CHECKSIG raises no error on any stack, depth 0 and 1 included; it
\* removes the top two elements (or as many as there are) and pushes [0x01],
\* so the depth becomes max(depth - 2, 0) + 1 and the elements below are
\* unchanged.
C14_CheckSigNeverFails ==
    [][(pc = "loop" /\ NextCode = CODE_CHECKSIG) =>
          LET n == Len(stack)
              kept == IF n >= 2 THEN n - 2 ELSE 0
          IN  /\ outcome' = outcome
              /\ pc' \in {"loop", "wait"}
              /\ Len(stack') = kept + 1
              /\ SubSeq(stack', 1, kept) = SubSeq(stack, 1, kept)
              /\ stack'[kept + 1] = TRUE_ELEM
              /\ full_script' = Tail(full_script)]_vars

\* OP_CHECKSIG ran twice: on three elements, then on the two it left
C14_Witness ==
    /\ scripts = << <<DATA_AA, DATA_BB, SIG1, OP_CHECKSIG, OP_CHECKSIG>> >>
    /\ op = OP_CHECKSIG
    /\ full_script = << >>
    /\ stack = << TRUE_ELEM >>
    /\ outcome.kind \in {"none", "Ok"}

\* the number of tokens Script::run has consumed
Consumed == Len(Flatten(scripts)) - Len(full_script)

\* the instruction list is the concatenation minus what was consumed, and the
\* token consumed last is the one at that position of the concatenation
RunInOrder ==
    pc \in {"loop", "wait", "returned", "aborted", "exit"} =>
        /\ Consumed \in 0..Len(Flatten(scripts))
        /\ full_script = SubSeq(Flatten(scripts), Consumed + 1, Len(Flatten(scripts)))
        /\ Consumed > 0 => op = Flatten(scripts)[Consumed]

\* a step of the run takes exactly the first remaining token, and nothing is
\* taken once the run has ended or while it waits
OneTokenPerStep ==
    /\ (pc = "loop" /\ full_script # << >>) =>
           /\ op' = Head(full_script)
           /\ full_script' = Tail(full_script)
    /\ (pc \in {"wait", "returned", "aborted", "exit"}) =>
           /\ full_script' = full_script
           /\ stack' = stack
           /\ op' = op
    /\ (pc = "loop" /\ full_script = << >>) =>
           /\ pc' = "returned" /\ outcome'.kind = "Ok" /\ stack' = stack

\* C15: Script::run executes the tokens of the concatenation of its scripts
\* in order, one per step and each at most once; after k steps the remaining
\* list is the concatenation minus its first k tokens; the run stops at the
\* first failing token or on the empty list, so it terminates (with the debug
\* hook, given that every resume signal arrives).
C15_RunInOrderAndEnds ==
    /\ []RunInOrder
    /\ [][OneTokenPerStep]_vars
    /\ <>Ended

\* a debug run of two scripts that consumed all four tokens and returned
C15_Witness ==
    /\ scripts = << <<DATA_AA>>, <<DATA_AA, DATA_AA, OP_EQUAL>> >>
    /\ debug
    /\ pc = "returned"
    /\ full_script = << >>
    /\ op = OP_EQUAL
    /\ outcome.kind = "Ok"

\* the error value a run returns with
ErrOutcome(msg) == [kind |-> "Err", msg |-> msg]

\* C16: OP_DUP and OP_HASH160 on an empty stack end the run with the error
\* value "... on empty stack" and no later token is executed; on a non-empty
\* stack OP_DUP pushes a copy of the top element (depth + 1, the rest as it
\* was) and OP_HASH160 replaces the top element by its hash160 digest (depth
\* and lower elements as they were).
C16_DupAndHash160 ==
    [][/\ (pc = "loop" /\ NextCode = CODE_DUP) =>
              IF stack = << >>
              THEN /\ pc' = "returned"
                   /\ outcome' = ErrOutcome("OP_DUP on empty stack")
                   /\ stack' = << >>
              ELSE /\ pc' \in {"loop", "wait"}
                   /\ outcome' = outcome
                   /\ Len(stack') = Len(stack) + 1
                   /\ SubSeq(stack', 1, Len(stack)) = stack
                   /\ stack'[Len(stack')] = stack[Len(stack)]
       /\ (pc = "loop" /\ NextCode = CODE_HASH160) =>
              IF stack = << >>
              THEN /\ pc' = "returned"
                   /\ outcome' = ErrOutcome("OP_HASH160 on empty stack")
                   /\ stack' = << >>
              ELSE /\ pc' \in {"loop", "wait"}
                   /\ outcome' = outcome
                   /\ Len(stack') = Len(stack)
                   /\ SubSeq(stack', 1, Len(stack) - 1)
                         = SubSeq(stack, 1, Len(stack) - 1)
                   /\ stack'[Len(stack')] = hash160(stack[Len(stack)])
       /\ (pc = "returned" /\ outcome.kind = "Err") =>
              /\ full_script' = full_script
              /\ stack' = stack
              /\ op' = op
              /\ outcome' = outcome]_vars

\* OP_HASH160 and OP_DUP both worked, OP_EQUALVERIFY emptied the stack and
\* the second OP_DUP returned the error
C16_Witness ==
    /\ scripts = << <<DATA_AA, OP_HASH160, OP_DUP, OP_EQUALVERIFY, OP_DUP>> >>
    /\ pc = "returned"
    /\ op = OP_DUP
    /\ full_script = << >>
    /\ stack = << >>
    /\ outcome = ErrOutcome("OP_DUP on empty stack")

\* C17: in OP_CHECKMULTISIG the count taken from the popped element, its
\* first byte minus 0x50, is an integer in 0..16 for every element that can
\* be on the stack: the subtraction does not underflow and no count asks for
\* more than 16 pops.
C17_CountInRange ==
    (/\ pc = "loop"
     /\ NextCode = CODE_CHECKMULTISIG
     /\ stack # << >>
     /\ stack[Len(stack)] # << >>) =>
        stack[Len(stack)][1] - CODE_NUM_BASE \in 0..NUM_MAX

\* the token is "OP_" followed by decimal digits and is no registry mnemonic
IsOpInteger(tok) ==
    /\ RevLookup(tok) = -1
    /\ Len(tok) > 3
    /\ SubSeq(tok, 1, 3) = OpPrefix
    /\ \A i \in 4..Len(tok) : DecVal(tok[i]) # -1

\* the integer such a token names
OpIntegerValue(tok) == DecValue(SubSeq(tok, 4, Len(tok)), 0)

\* C18: asm_to_bytes encodes a token "OP_" + integer n that is no registry
\* mnemonic as the single byte 0x50 + n when 1 <= n <= 16 and fails with
\* "Invalid OP_n" for every larger n; no integer outside 1..16 yields a byte
\* and no larger integer yields another error.
C18_OpIntegerEncoding ==
    (pc # "encode" /\ Len(c_asm) = 1 /\ IsOpInteger(c_asm[1])) =>
        LET n == OpIntegerValue(c_asm[1])
        IN  /\ n \in 1..NUM_MAX =>
                   c_enc.ok /\ c_enc.bytes = << CODE_NUM_BASE + n >>
            /\ n > NUM_MAX => ~c_enc.ok /\ c_enc.err = "Invalid OP_n"
            /\ n \notin 1..NUM_MAX => ~c_enc.ok

RECURSIVE HeadlessAfter(_, _, _, _)
\* where a run without the hook stands after k tokens of toks, begun on the
\* stack stk: the stack, the remaining list and the failure, if one occurred
HeadlessAfter(toks, k, stk, checks) ==
    IF k = 0 \/ toks = << >>
    THEN [kind |-> "Ok", msg |-> "none", stack |-> stk, rest |-> toks]
    ELSE LET r == ExecToken(Head(toks), stk, checks)
         IN  IF r.kind # "Ok"
             THEN [kind |-> r.kind, msg |-> r.msg, stack |-> r.stack,
                   rest |-> Tail(toks)]
             ELSE HeadlessAfter(Tail(toks), k - 1, r.stack, checks)

\* the run, with the hook or without, stands where the run without it stands
\* after the same number of tokens
SameAsHeadless ==
    pc \in {"loop", "wait", "returned", "aborted"} =>
        LET h == HeadlessAfter(Flatten(scripts), Consumed, << >>, overflow_checks)
        IN  /\ stack = h.stack
            /\ full_script = h.rest
            /\ outcome.kind \in {"Err", "Panic"} =>
                   outcome = [kind |-> h.kind, msg |-> h.msg]
            /\ outcome.kind \in {"none", "Ok"} => h.kind = "Ok"
            /\ (pc = "returned") = (outcome.kind = "Err" \/
                                    (outcome.kind = "Ok" /\ h.rest = << >>))

\* while the run waits for the resume signal nothing but its position changes
HookReadOnly ==
    pc = "wait" =>
        /\ pc' = "loop"
        /\ stack' = stack
        /\ full_script' = full_script
        /\ op' = op
        /\ outcome' = outcome

\* C19: the per-step hook is read-only: with debug enabled or disabled the
\* run goes through the same (remaining list, stack) states and ends in the
\* same outcome; the hook changes neither the stack nor the list, and a run
\* without debug never waits for a resume signal.
C19_HookReadOnly ==
    /\ []SameAsHeadless
    /\ [][HookReadOnly]_vars
    /\ [](~debug => pc # "wait")

\* a debug run waiting after OP_CHECKMULTISIG, its stack as the run without
\* the hook has it
C19_Witness ==
    /\ scripts = << <<DATA_AA, SIG1, SIG2>>, MultiSigLock >>
    /\ debug
    /\ pc = "wait"
    /\ op = OP_CHECKMULTISIG
    /\ stack = << TRUE_ELEM >>
    /\ full_script = << >>

\* the bytes the unit at offset i (0-based) takes: a length prefix 1..75 with
\* the data it declares, or one byte
UnitLen(b, i) == IF b[i + 1] >= 1 /\ b[i + 1] <= PUSH_MAX THEN 1 + b[i + 1] ELSE 1

\* the token of the unit at offset i
UnitToken(b, i) ==
    IF b[i + 1] >= 1 /\ b[i + 1] <= PUSH_MAX
    THEN hex_encode(SubSeq(b, i + 2, i + 1 + b[i + 1]))
    ELSE IF b[i + 1] \in DOMAIN OPCODE_MAP THEN OPCODE_MAP[b[i + 1]]
    ELSE ByteHex(b[i + 1])

\* where the units starting at the offsets S end
UnitsEnd(b, S) ==
    IF S = {} THEN 0
    ELSE LET last == CHOOSE i \in S : \A j \in S : j <= i
         IN  last + UnitLen(b, last)

\* S is a chain of whole units from offset 0, each starting where the one
\* before it ends, so no byte belongs to two units and none is skipped
UnitChain(b, S) ==
    /\ \A i \in S : i + UnitLen(b, i) <= Len(b)
    /\ \A i \in S : i = 0 \/ \E j \in S : j + UnitLen(b, j) = i
    /\ S # {} => 0 \in S

\* the tokens are those of the units of S, in the order of their offsets
TokensOf(b, S, asm) ==
    /\ Len(asm) = Cardinality(S)
    /\ \A i \in S : asm[Cardinality({j \in S : j <= i})] = UnitToken(b, i)

\* C20: bytes_to_asm never fails: on a length prefix 1..75 that declares more
\* bytes than remain it stops and returns exactly the tokens decoded before
\* that prefix; on every other byte sequence each byte is consumed exactly
\* once, as a prefix, as push data or as an opcode / unknown-byte token.
C20_DecodeTotal ==
    pc = "done" =>
        LET b == c_enc.bytes
        IN  \E S \in SUBSET (0..(Len(b) - 1)) :
                /\ UnitChain(b, S)
                /\ TokensOf(b, S, c_dec)
                /\ \/ UnitsEnd(b, S) = Len(b)
                   \/ /\ UnitsEnd(b, S) < Len(b)
                      /\ b[UnitsEnd(b, S) + 1] \in 1..PUSH_MAX
                      /\ UnitsEnd(b, S) + UnitLen(b, UnitsEnd(b, S)) > Len(b)

\* the prefix 0x02 with one byte left: the result is the token before it
C20_Witness ==
    /\ pc = "done"
    /\ c_enc.bytes = << CODE_DUP, 2, 170 >>
    /\ c_dec = << OP_DUP >>

=============================================================================
